---- MODULE Spec2Model ----
(***************************************************************************)
(* The generational arena DynVec<T> of src/src/dynvec.rs as a state        *)
(* machine.  A slot is {generation, val}, val an Option<T>; a handle is    *)
(* {idx, generation}.  Indices are 0-based as in the source; the sequence  *)
(* `slots` is 1-based, so slot i of the source is slots[i + 1].            *)
(***************************************************************************)
EXTENDS Integers, Sequences, FiniteSets, TLC

\* ------------------------------------------------------------------ bounds
\* The arena grows to at most MaxSlots slots.
MaxSlots == 2
\* The largest value of a generation counter (u32::MAX in the source).
MaxGen == 2
\* Payloads are 1..MaxVal.
MaxVal == 2
\* The free list holds at most MaxFree indices.
MaxFree == 2

\* The observer counts the bumps of one counter up to MaxBumps: one more than
\* the MaxGen + 1 bumps that bring a counter back to where it was.
MaxBumps == MaxGen + 2

\* ------------------------------------------------------------------- types
\* Option<T>::None
None == 0
Values == 1..MaxVal
OptVals == {None} \cup Values
Gens == 0..MaxGen

\* Handle { idx, generation }; idx = MaxSlots is out of bounds in every state.
Handles == [idx : 0..MaxSlots, generation : Gens]
\* "no handle": the value of a handle-typed field that holds none.
NoHandle == [idx |-> 0 - 1, generation |-> 0]

\* Slot { generation, val }
Slot(g, v) == [generation |-> g, val |-> v]

\* generational::Handle { generation }
GenHandles == [generation : Gens]

\* GenVariant { inner, generation }; the variants of MyVariant are the payloads.
GenVariant(inner, g) == [inner |-> inner, generation |-> g]
\* The value of gv while no GenVariant has been built.
NoGenVariant == GenVariant(None, 0)

\* The closures handed to map_invalidate, FnOnce(Option<T>) -> Option<T>: the
\* identity and the constant ones.  map_invalidate applies its closure once, to
\* the slot's payload, so every closure acts there as one of these does.
Closures ==
    {[x \in OptVals |-> x]} \cup {[x \in OptVals |-> c] : c \in OptVals}

VARIABLES
    slots,      \* DynVec::slots, a sequence of slots
    free,       \* DynVec::free, the stack of reusable indices (top = last)
    last,       \* the last call: its name and what it returned
    panicked,   \* TRUE once a call has aborted
    view,       \* Elem::handle of the view built last, NoHandle while none is
    gv,         \* the GenVariant: its inner value and its generation
    obs         \* the observer: one handle followed from the call that returned it

vars == <<slots, free, last, panicked, view, gv, obs>>

\* ------------------------------------------------------- pure helper functions
\* u32::wrapping_add(1)
wrapping_add(g) == (g + 1) % (MaxGen + 1)

\* DynVec::len
len(sl) == Len(sl)

\* Vec::get(idx).is_some()
InBounds(sl, i) == i >= 0 /\ i < Len(sl)

\* self.slots[i]
SlotAt(sl, i) == sl[i + 1]

\* DynVec::get: the value, or None
get(sl, h) ==
    IF ~InBounds(sl, h.idx) THEN None
    ELSE IF SlotAt(sl, h.idx).generation = h.generation
         THEN SlotAt(sl, h.idx).val
         ELSE None

\* DynVec::get_mut resolves exactly as get does
get_mut(sl, h) ==
    IF ~InBounds(sl, h.idx) THEN None
    ELSE IF SlotAt(sl, h.idx).generation = h.generation
         THEN SlotAt(sl, h.idx).val
         ELSE None

\* slots with slot i replaced
SetSlot(sl, i, s) == [sl EXCEPT ![i + 1] = s]

\* Vec::swap(i, j): the two whole slots change places (it aborts on an index out
\* of bounds, which Swap tests before it uses this)
VecSwap(sl, i, j) == [sl EXCEPT ![i + 1] = sl[j + 1], ![j + 1] = sl[i + 1]]

\* Vec::pop on the free list: the last element
Top(fr) == fr[Len(fr)]
Pop(fr) == SubSeq(fr, 1, Len(fr) - 1)

\* What a call returned: ok (Some / Ok, or None / Err), the handle returned (rh,
\* NoHandle if none) and the value returned (rv, None if none).
Ret(op, ok, rh, rv) == [op |-> op, ok |-> ok, rh |-> rh, rv |-> rv]

\* ---------------------------------------------------------------- the observer
\* The observer follows one handle from the call that returned it and records
\* what has happened to it since.  It only watches: no operation reads it.
\*   mode     "off": it follows nothing and never changes;
\*            "life": it follows a handle returned by insert or replace and
\*            keeps stale, removed and wrapped;
\*            "frame": it follows a handle returned by insert and keeps tval
\*            and undist
\*            "issued": it follows no handle and keeps issued, forged and
\*            wrapped
\*            "bumps": it follows a handle returned by insert or replace and
\*            keeps bumps
\*            "gen": it follows a handle returned by GenVariant::handle and
\*            keeps bumps
\*            "view": it follows the handle of the view and keeps stale,
\*            touched and wrapped, all three counted from Elem::new
\*   tracked  the handle followed, NoHandle while none is
\*   tval     the value stored by the insert that returned it
\*   stale    the generation stored at tracked.idx has differed from
\*            tracked.generation in some state since it was returned
\*   removed  remove(tracked) has succeeded since it was returned
\*   wrapped  some generation counter has wrapped from MaxGen to 0
\*   undist   every call since it was returned was an insert, a get, or a remove,
\*            replace, get_mut or map_invalidate through a handle of another index
\*   bumps    how many times the generation counter of the handle's slot has
\*            been bumped since it was returned, counted up to MaxBumps
\*   touched  the slot at the view's index has changed since the view was built
\*   issued   the handles the calls have returned so far
\*   forged   some call was made with a handle that no earlier call had
\*            returned; from then on issued is no longer kept
\* The handle is followed from the first call that returned it; a later call
\* that returns an equal handle changes nothing in what is recorded of it.
ObsInit(mode) ==
    [mode |-> mode, tracked |-> NoHandle, tval |-> None, stale |-> FALSE,
     removed |-> FALSE, wrapped |-> FALSE, undist |-> TRUE,
     issued |-> {}, forged |-> FALSE, bumps |-> 0, touched |-> FALSE]

\* The observer's states after a call of op with the handles hs for arguments
\* that returned ok, returned the handle `issued` (NoHandle if none) for the
\* value val, left the slots sl2 and wrapped a counter iff w.
Observe(op, hs, ok, issued, val, sl2, w) ==
    IF obs.mode = "life"
    THEN IF obs.tracked = NoHandle
         THEN {[obs EXCEPT !.wrapped = @ \/ w]} \cup
              (IF issued = NoHandle THEN {}
               ELSE {[obs EXCEPT !.tracked = issued, !.wrapped = @ \/ w]})
         ELSE {[obs EXCEPT
                  !.stale = @ \/ SlotAt(sl2, obs.tracked.idx).generation
                                   # obs.tracked.generation,
                  !.removed = @ \/ (op = "remove" /\ ok /\ obs.tracked \in hs),
                  !.wrapped = @ \/ w]}
    ELSE IF obs.mode = "frame"
    THEN IF obs.tracked = NoHandle
         THEN {obs} \cup
              (IF issued = NoHandle \/ op # "insert" THEN {}
               ELSE {[obs EXCEPT !.tracked = issued, !.tval = val]})
         ELSE {[obs EXCEPT
                  !.undist = @ /\ (\/ op \in {"insert", "get"}
                                   \/ /\ op \in {"remove", "replace", "get_mut",
                                                 "map_invalidate"}
                                      /\ \A a \in hs :
                                            a.idx # obs.tracked.idx)]}
    ELSE IF obs.mode = "view"
    THEN IF view = NoHandle
         THEN {obs}
         ELSE {[obs EXCEPT
                  !.stale = @ \/ SlotAt(sl2, view.idx).generation
                                   # view.generation,
                  !.touched = @ \/ SlotAt(sl2, view.idx)
                                     # SlotAt(slots, view.idx),
                  !.wrapped = @ \/ w]}
    ELSE IF obs.mode = "bumps"
    THEN IF obs.tracked = NoHandle
         THEN {obs} \cup
              (IF issued = NoHandle THEN {}
               ELSE {[obs EXCEPT !.tracked = issued]})
         ELSE LET bumped ==
                      \/ /\ op \in {"replace", "remove", "map_invalidate"}
                         /\ ok
                         /\ \E a \in hs : a.idx = obs.tracked.idx
                      \/ /\ op = "clear"
                         /\ SlotAt(slots, obs.tracked.idx).val # None
              IN {[obs EXCEPT
                     !.bumps = IF bumped /\ @ < MaxBumps THEN @ + 1 ELSE @]}
    ELSE IF obs.mode = "issued"
    THEN IF obs.forged
         THEN {obs}
         ELSE IF ~(hs \subseteq obs.issued)
         THEN {[obs EXCEPT !.forged = TRUE, !.issued = {}]}
         ELSE {[obs EXCEPT
                  !.issued = @ \cup (IF issued = NoHandle THEN {}
                                     ELSE {issued}),
                  !.wrapped = @ \/ w]}
    ELSE {obs}

\* ------------------------------------------------------------------ operations
\* A call of op with the handles hs that leaves the arena as it is and returns
\* ok and rv.
Returns(op, hs, ok, rv) ==
    /\ slots' = slots
    /\ free' = free
    /\ panicked' = panicked
    /\ UNCHANGED <<gv, view>>
    /\ last' = Ret(op, ok, NoHandle, rv)
    /\ obs' \in Observe(op, hs, ok, NoHandle, None, slots, FALSE)

\* A call that aborts the process: an index out of bounds.
Panics(op) ==
    /\ slots' = slots
    /\ free' = free
    /\ panicked' = TRUE
    /\ UNCHANGED <<gv, view>>
    /\ last' = Ret(op, FALSE, NoHandle, None)
    /\ obs' = obs

\* insert as it would be if it bumped the generation of the slot it reuses.
InsertBump(value) ==
    /\ ~panicked
    /\ free = <<>> => Len(slots) < MaxSlots
    /\ IF free # <<>>
       THEN LET idx == Top(free) IN
            IF ~InBounds(slots, idx)
            THEN Panics("insert")
            ELSE LET generation == wrapping_add(SlotAt(slots, idx).generation)
                     h == [idx |-> idx, generation |-> generation]
                 IN /\ slots' = SetSlot(slots, idx, Slot(generation, value))
                    /\ free' = Pop(free)
                    /\ panicked' = panicked
                    /\ UNCHANGED <<gv, view>>
                    /\ last' = Ret("insert", TRUE, h, None)
                    /\ obs' \in Observe("insert", {}, TRUE, h, value,
                                        slots', generation = 0)
       ELSE LET idx == Len(slots)
                h == [idx |-> idx, generation |-> 0]
            IN /\ slots' = Append(slots, Slot(0, value))
               /\ free' = free
               /\ panicked' = panicked
               /\ UNCHANGED <<gv, view>>
               /\ last' = Ret("insert", TRUE, h, None)
               /\ obs' \in Observe("insert", {}, TRUE, h, value,
                                   slots', FALSE)

\* DynVec::insert
Insert(value) ==
    /\ ~panicked
    /\ free = <<>> => Len(slots) < MaxSlots
    /\ IF free # <<>>
       THEN LET idx == Top(free) IN
            IF ~InBounds(slots, idx)
            THEN Panics("insert")
            ELSE LET generation == SlotAt(slots, idx).generation
                     h == [idx |-> idx, generation |-> generation]
                 IN /\ slots' = SetSlot(slots, idx, Slot(generation, value))
                    /\ free' = Pop(free)
                    /\ panicked' = panicked
                    /\ UNCHANGED <<gv, view>>
                    /\ last' = Ret("insert", TRUE, h, None)
                    /\ obs' \in Observe("insert", {}, TRUE, h, value,
                                        slots', FALSE)
       ELSE LET idx == Len(slots)
                h == [idx |-> idx, generation |-> 0]
            IN /\ slots' = Append(slots, Slot(0, value))
               /\ free' = free
               /\ panicked' = panicked
               /\ UNCHANGED <<gv, view>>
               /\ last' = Ret("insert", TRUE, h, None)
               /\ obs' \in Observe("insert", {}, TRUE, h, value,
                                   slots', FALSE)

\* replace as it would be without the generation bump of line 66.
ReplaceNoBump(h, value) ==
    /\ ~panicked
    /\ IF ~InBounds(slots, h.idx)
       THEN Returns("replace", {h}, FALSE, None)
       ELSE LET slot == SlotAt(slots, h.idx) IN
            IF slot.generation # h.generation \/ slot.val = None
            THEN Returns("replace", {h}, FALSE, None)
            ELSE /\ slots' = SetSlot(slots, h.idx, Slot(slot.generation, value))
                 /\ free' = free
                 /\ panicked' = panicked
                 /\ UNCHANGED <<gv, view>>
                 /\ last' = Ret("replace", TRUE, h, None)
                 /\ obs' \in Observe("replace", {h}, TRUE, h, value, slots', FALSE)

\* DynVec::replace
Replace(h, value) ==
    /\ ~panicked
    /\ IF ~InBounds(slots, h.idx)
       THEN Returns("replace", {h}, FALSE, None)
       ELSE LET slot == SlotAt(slots, h.idx) IN
            IF slot.generation # h.generation \/ slot.val = None
            THEN Returns("replace", {h}, FALSE, None)
            ELSE LET g2 == wrapping_add(slot.generation)
                     h2 == [idx |-> h.idx, generation |-> g2]
                 IN /\ slots' = SetSlot(slots, h.idx, Slot(g2, value))
                    /\ free' = free
                    /\ panicked' = panicked
                    /\ UNCHANGED <<gv, view>>
                    /\ last' = Ret("replace", TRUE, h2, None)
                    /\ obs' \in Observe("replace", {h}, TRUE, h2, value, slots',
                                        slot.generation = MaxGen)

\* DynVec::get
Get(h) ==
    /\ ~panicked
    /\ Returns("get", {h}, get(slots, h) # None, get(slots, h))

\* A write through get_mut as it would be if get_mut bumped the generation.
GetMutBump(h, value) ==
    /\ ~panicked
    /\ IF get_mut(slots, h) = None
       THEN Returns("get_mut", {h}, FALSE, None)
       ELSE /\ slots' = SetSlot(slots, h.idx,
                    Slot(wrapping_add(SlotAt(slots, h.idx).generation), value))
            /\ free' = free
            /\ panicked' = panicked
            /\ UNCHANGED <<gv, view>>
            /\ last' = Ret("get_mut", TRUE, NoHandle, get_mut(slots, h))
            /\ obs' \in Observe("get_mut", {h}, TRUE, NoHandle, None, slots',
                                SlotAt(slots, h.idx).generation = MaxGen)

\* A write through DynVec::get_mut: if let Some(x) = get_mut(h) { *x = value }
GetMut(h, value) ==
    /\ ~panicked
    /\ IF get_mut(slots, h) = None
       THEN Returns("get_mut", {h}, FALSE, None)
       ELSE /\ slots' = SetSlot(slots, h.idx,
                                Slot(SlotAt(slots, h.idx).generation, value))
            /\ free' = free
            /\ panicked' = panicked
            /\ UNCHANGED <<gv, view>>
            /\ last' = Ret("get_mut", TRUE, NoHandle, get_mut(slots, h))
            /\ obs' \in Observe("get_mut", {h}, TRUE, NoHandle, None, slots', FALSE)

\* remove as it would be if it bumped the generation before testing val.is_none().
RemoveEager(h) ==
    /\ ~panicked
    /\ IF ~InBounds(slots, h.idx)
       THEN Returns("remove", {h}, FALSE, None)
       ELSE LET slot == SlotAt(slots, h.idx) IN
            IF slot.generation # h.generation
            THEN Returns("remove", {h}, FALSE, None)
            ELSE IF slot.val = None
            THEN /\ slots' = SetSlot(slots, h.idx,
                                     Slot(wrapping_add(slot.generation), None))
                 /\ free' = free
                 /\ panicked' = panicked
                 /\ UNCHANGED <<gv, view>>
                 /\ last' = Ret("remove", FALSE, NoHandle, None)
                 /\ obs' \in Observe("remove", {h}, FALSE, NoHandle, None, slots',
                                     slot.generation = MaxGen)
            ELSE /\ Len(free) < MaxFree
                 /\ slots' = SetSlot(slots, h.idx,
                                     Slot(wrapping_add(slot.generation), None))
                 /\ free' = Append(free, h.idx)
                 /\ panicked' = panicked
                 /\ UNCHANGED <<gv, view>>
                 /\ last' = Ret("remove", TRUE, NoHandle, slot.val)
                 /\ obs' \in Observe("remove", {h}, TRUE, NoHandle, None, slots',
                                     slot.generation = MaxGen)

\* DynVec::remove
Remove(h) ==
    /\ ~panicked
    /\ IF ~InBounds(slots, h.idx)
       THEN Returns("remove", {h}, FALSE, None)
       ELSE LET slot == SlotAt(slots, h.idx) IN
            IF slot.generation # h.generation \/ slot.val = None
            THEN Returns("remove", {h}, FALSE, None)
            ELSE /\ Len(free) < MaxFree
                 /\ slots' = SetSlot(slots, h.idx,
                                     Slot(wrapping_add(slot.generation), None))
                 /\ free' = Append(free, h.idx)
                 /\ panicked' = panicked
                 /\ UNCHANGED <<gv, view>>
                 /\ last' = Ret("remove", TRUE, NoHandle, slot.val)
                 /\ obs' \in Observe("remove", {h}, TRUE, NoHandle, None, slots',
                                     slot.generation = MaxGen)

\* The loop of DynVec::clear from index i on: the slots and the free list after it.
RECURSIVE ClearLoop(_, _, _)
ClearLoop(sl, fr, i) ==
    IF i >= Len(sl) THEN [slots |-> sl, free |-> fr]
    ELSE IF SlotAt(sl, i).val # None
         THEN ClearLoop(SetSlot(sl, i,
                            Slot(wrapping_add(SlotAt(sl, i).generation), None)),
                        Append(fr, i), i + 1)
         ELSE ClearLoop(sl, fr, i + 1)

\* The indices of the slots.
Indices(sl) == 0..(Len(sl) - 1)

\* The indices of the occupied slots.
Occupied(sl) == {i \in 0..(Len(sl) - 1) : SlotAt(sl, i).val # None}

\* clear as it would be if its loop started at index 1.
ClearSkipFirst ==
    /\ ~panicked
    /\ Len(free) + Cardinality(Occupied(slots)) <= MaxFree
    /\ LET r == ClearLoop(slots, free, 1) IN
       /\ slots' = r.slots
       /\ free' = r.free
    /\ panicked' = panicked
    /\ UNCHANGED <<gv, view>>
    /\ last' = Ret("clear", TRUE, NoHandle, None)
    /\ obs' \in Observe("clear", {}, TRUE, NoHandle, None, slots',
                        \E i \in Occupied(slots) :
                            SlotAt(slots, i).generation = MaxGen)

\* clear as it would be if it bumped the generation of every slot, occupied or
\* not.
ClearBumpAll ==
    /\ ~panicked
    /\ Len(free) + Cardinality(Occupied(slots)) <= MaxFree
    /\ LET r == ClearLoop(slots, free, 0) IN
       /\ slots' = [i \in 1..Len(slots) |->
                       Slot(wrapping_add(slots[i].generation), None)]
       /\ free' = r.free
    /\ panicked' = panicked
    /\ UNCHANGED <<gv, view>>
    /\ last' = Ret("clear", TRUE, NoHandle, None)
    /\ obs' \in Observe("clear", {}, TRUE, NoHandle, None, slots',
                        \E i \in Indices(slots) :
                            SlotAt(slots, i).generation = MaxGen)

\* DynVec::clear
Clear ==
    /\ ~panicked
    /\ Len(free) + Cardinality(Occupied(slots)) <= MaxFree
    /\ LET r == ClearLoop(slots, free, 0) IN
       /\ slots' = r.slots
       /\ free' = r.free
    /\ panicked' = panicked
    /\ UNCHANGED <<gv, view>>
    /\ last' = Ret("clear", TRUE, NoHandle, None)
    /\ obs' \in Observe("clear", {}, TRUE, NoHandle, None, slots',
                        \E i \in Occupied(slots) :
                            SlotAt(slots, i).generation = MaxGen)

\* swap as it would be if it read slots[b.idx] instead of slots.get(b.idx): an
\* index out of bounds aborts.
SwapUnchecked(a, b) ==
    /\ ~panicked
    /\ IF ~InBounds(slots, a.idx)
       THEN Returns("swap", {a, b}, FALSE, None)
       ELSE IF ~InBounds(slots, b.idx)
       THEN Panics("swap")
       ELSE IF \/ SlotAt(slots, a.idx).generation # a.generation
               \/ SlotAt(slots, b.idx).generation # b.generation
       THEN Returns("swap", {a, b}, FALSE, None)
       ELSE IF ~InBounds(slots, a.idx) \/ ~InBounds(slots, b.idx)
       THEN Panics("swap")
       ELSE /\ slots' = VecSwap(slots, a.idx, b.idx)
            /\ free' = free
            /\ panicked' = panicked
            /\ UNCHANGED <<gv, view>>
            /\ last' = Ret("swap", TRUE, NoHandle, None)
            /\ obs' \in Observe("swap", {a, b}, TRUE, NoHandle, None, slots', FALSE)

\* DynVec::swap
Swap(a, b) ==
    /\ ~panicked
    /\ IF ~InBounds(slots, a.idx)
       THEN Returns("swap", {a, b}, FALSE, None)
       ELSE IF ~InBounds(slots, b.idx)
       THEN Returns("swap", {a, b}, FALSE, None)
       ELSE IF \/ SlotAt(slots, a.idx).generation # a.generation
               \/ SlotAt(slots, b.idx).generation # b.generation
       THEN Returns("swap", {a, b}, FALSE, None)
       ELSE IF ~InBounds(slots, a.idx) \/ ~InBounds(slots, b.idx)
       THEN Panics("swap")
       ELSE /\ slots' = VecSwap(slots, a.idx, b.idx)
            /\ free' = free
            /\ panicked' = panicked
            /\ UNCHANGED <<gv, view>>
            /\ last' = Ret("swap", TRUE, NoHandle, None)
            /\ obs' \in Observe("swap", {a, b}, TRUE, NoHandle, None, slots', FALSE)

\* map_invalidate as it would be if it bumped the generation only when the closure
\* changed the payload.
MapInvalidateLazy(h, f) ==
    /\ ~panicked
    /\ IF ~InBounds(slots, h.idx)
       THEN Returns("map_invalidate", {h}, FALSE, None)
       ELSE LET slot == SlotAt(slots, h.idx) IN
            IF slot.generation # h.generation
            THEN Returns("map_invalidate", {h}, FALSE, None)
            ELSE LET new_val == f[slot.val]
                     g2 == IF new_val = slot.val THEN slot.generation
                           ELSE wrapping_add(slot.generation)
                 IN /\ slots' = SetSlot(slots, h.idx, Slot(g2, new_val))
                    /\ free' = free
                    /\ panicked' = panicked
                    /\ UNCHANGED <<gv, view>>
                    /\ last' = Ret("map_invalidate", TRUE, NoHandle, None)
                    /\ obs' \in Observe("map_invalidate", {h}, TRUE, NoHandle,
                                        None, slots', g2 = 0 /\ g2 # slot.generation)

\* DynVec::map_invalidate
MapInvalidate(h, f) ==
    /\ ~panicked
    /\ IF ~InBounds(slots, h.idx)
       THEN Returns("map_invalidate", {h}, FALSE, None)
       ELSE LET slot == SlotAt(slots, h.idx) IN
            IF slot.generation # h.generation
            THEN Returns("map_invalidate", {h}, FALSE, None)
            ELSE LET new_val == f[slot.val] IN
                 /\ slots' = SetSlot(slots, h.idx,
                                     Slot(wrapping_add(slot.generation), new_val))
                 /\ free' = free
                 /\ panicked' = panicked
                 /\ UNCHANGED <<gv, view>>
                 /\ last' = Ret("map_invalidate", TRUE, NoHandle, None)
                 /\ obs' \in Observe("map_invalidate", {h}, TRUE, NoHandle, None,
                                     slots', slot.generation = MaxGen)

\* ------------------------------------------------------------------------ Elem
\* An Elem is modelled by the handle it holds; its parent is the arena.  The
\* borrow &'a DynVec keeps safe code from calling a &mut self method of the
\* arena while the Elem is alive; parent and handle are public fields, so the
\* Elem that is dereferenced after such a call is one rebuilt from the handle.

\* The observer's state after Elem::new has built a view.
ObserveView ==
    IF obs.mode = "view"
    THEN [obs EXCEPT !.stale = FALSE, !.touched = FALSE, !.wrapped = FALSE]
    ELSE obs

\* Elem::new as it would be if it built the view without calling parent.get.
ElemNewUnchecked(h) ==
    /\ ~panicked
    /\ UNCHANGED <<slots, free, panicked, gv>>
    /\ view' = h
    /\ last' = Ret("elem_new", TRUE, NoHandle, None)
    /\ obs' = ObserveView

\* Elem::new
ElemNew(h) ==
    /\ ~panicked
    /\ UNCHANGED <<slots, free, panicked, gv>>
    /\ IF get(slots, h) # None
       THEN /\ view' = h
            /\ last' = Ret("elem_new", TRUE, NoHandle, None)
            /\ obs' = ObserveView
       ELSE /\ view' = view
            /\ last' = Ret("elem_new", FALSE, NoHandle, None)
            /\ obs' = obs

\* <Elem as Deref>::deref; the expect aborts with "use-after-invalidate".
Deref ==
    /\ ~panicked
    /\ view # NoHandle
    /\ UNCHANGED <<slots, free, view, gv, obs>>
    /\ IF get(slots, view) # None
       THEN /\ panicked' = panicked
            /\ last' = Ret("deref", TRUE, NoHandle, get(slots, view))
       ELSE /\ panicked' = TRUE
            /\ last' = Ret("deref", FALSE, NoHandle, None)

\* ------------------------------------------------------------------ GenVariant
\* GenVariant::new
gv_new(inner) == GenVariant(inner, 0)

\* GenVariant::handle
gv_handle(g) == [generation |-> g.generation]

\* GenVariant::get: the inner value, or None
gv_get(g, h) == IF h.generation = g.generation THEN g.inner ELSE None

\* GenVariant::set
gv_set(g, new_inner) == GenVariant(new_inner, wrapping_add(g.generation))

\* The observer's states after a call op of the GenVariant that returned the
\* handle `issued` (NoHandle if none).
ObserveGen(op, issued) ==
    IF obs.mode = "gen"
    THEN IF obs.tracked = NoHandle
         THEN {obs} \cup
              (IF issued = NoHandle THEN {}
               ELSE {[obs EXCEPT !.tracked = issued]})
         ELSE {[obs EXCEPT
                  !.bumps = IF op = "set" /\ @ < MaxBumps THEN @ + 1 ELSE @]}
    ELSE {obs}

\* A call on the GenVariant leaves the arena and the view as they are.
ArenaUnchanged == UNCHANGED <<slots, free, panicked, view>>

\* GenVariant::handle
GenVariantHandle ==
    /\ ArenaUnchanged
    /\ gv' = gv
    /\ last' = Ret("handle", TRUE, gv_handle(gv), None)
    /\ obs' \in ObserveGen("handle", gv_handle(gv))

\* GenVariant::get
GenVariantGet(h) ==
    /\ ArenaUnchanged
    /\ gv' = gv
    /\ last' = Ret("get", gv_get(gv, h) # None, NoHandle, gv_get(gv, h))
    /\ obs' \in ObserveGen("get", NoHandle)

\* set as it would be without the generation bump of line 45.
GenVariantSetNoBump(new_inner) ==
    /\ ArenaUnchanged
    /\ gv' = GenVariant(new_inner, gv.generation)
    /\ last' = Ret("set", TRUE, NoHandle, None)
    /\ obs' \in ObserveGen("set", NoHandle)

\* GenVariant::set
GenVariantSet(new_inner) ==
    /\ ArenaUnchanged
    /\ gv' = gv_set(gv, new_inner)
    /\ last' = Ret("set", TRUE, NoHandle, None)
    /\ obs' \in ObserveGen("set", NoHandle)

\* ---------------------------------------------------------------- specification
\* DynVec::new; no call made yet.
InitArena ==
    /\ slots = <<>>
    /\ free = <<>>
    /\ panicked = FALSE
    /\ last = Ret("new", TRUE, NoHandle, None)
    /\ view = NoHandle

Init == InitArena /\ gv = NoGenVariant /\ obs = ObsInit("off")

InitLife == InitArena /\ gv = NoGenVariant /\ obs = ObsInit("life")

InitFrame == InitArena /\ gv = NoGenVariant /\ obs = ObsInit("frame")

InitIssued == InitArena /\ gv = NoGenVariant /\ obs = ObsInit("issued")

Next ==
    \/ \E value \in Values : Insert(value)
    \/ \E h \in Handles, value \in Values : Replace(h, value)
    \/ \E h \in Handles : Get(h)
    \/ \E h \in Handles, value \in Values : GetMut(h, value)
    \/ \E h \in Handles : Remove(h)
    \/ Clear
    \/ \E a \in Handles, b \in Handles : Swap(a, b)
    \/ \E h \in Handles, f \in Closures : MapInvalidate(h, f)

\* GenVariant::new(inner); no call made yet.
InitGen ==
    /\ InitArena
    /\ gv \in {gv_new(inner) : inner \in Values}
    /\ obs = ObsInit("gen")

NextGen ==
    \/ GenVariantHandle
    \/ \E h \in GenHandles : GenVariantGet(h)
    \/ \E new_inner \in Values : GenVariantSet(new_inner)

InitView == InitArena /\ gv = NoGenVariant /\ obs = ObsInit("view")

NextView ==
    \/ Next
    \/ \E h \in Handles : ElemNew(h)
    \/ Deref

InitBumps == InitArena /\ gv = NoGenVariant /\ obs = ObsInit("bumps")

\* The arena alone.
Spec == Init /\ [][Next]_vars

\* The arena, with the observer following the life of a returned handle.
SpecLife == InitLife /\ [][Next]_vars

\* The arena, with the observer following a handle returned by insert through
\* calls that do not concern its slot.
SpecFrame == InitFrame /\ [][Next]_vars

\* The arena, with the observer recording whether every call so far was made
\* with handles that earlier calls returned.
SpecIssued == InitIssued /\ [][Next]_vars

\* The arena, with the observer counting the bumps of a returned handle's slot.
SpecBumps == InitBumps /\ [][Next]_vars

\* The arena and a view of it, with the observer following the view's handle.
SpecView == InitView /\ [][NextView]_vars

\* The GenVariant, with the observer counting the sets since a handle was taken.
SpecGen == InitGen /\ [][NextGen]_vars

\* ----------------------------------------------------------------------- claims
\* C1: a handle returned by insert or replace whose slot's generation has
\* changed since is dead for good: while no generation counter has wrapped,
\* get returns nothing for it in every later state.
C1_StaleStaysDead ==
    (obs.tracked # NoHandle /\ obs.stale /\ ~obs.wrapped)
        => get(slots, obs.tracked) = None

\* C2: swap(a, b) of two handles that both resolve returns Ok, and afterwards a
\* resolves to the value b resolved to and b to the value a resolved to, whether
\* or not the two stored generations are equal.
C2_SwapExchanges ==
    [][\A a \in Handles, b \in Handles :
         (last'.op = "swap" /\ get(slots, a) # None /\ get(slots, b) # None
            /\ Swap(a, b))
            => /\ last'.ok
               /\ get(slots', a) = get(slots, b)
               /\ get(slots', b) = get(slots, a)]_vars

\* C3: the handle h returned by insert(v) resolves to v right after the insert,
\* and still does after any later insert and after any remove, replace, get_mut
\* write or map_invalidate made through a handle of another index.
C3_InsertedStays ==
    (obs.tracked # NoHandle /\ obs.undist)
        => get(slots, obs.tracked) = obs.tval

\* C4: a remove(h) that succeeds returns the value h resolved to, leaves h
\* resolving to nothing and the handles of the other slots resolving as before;
\* and, while no generation counter has wrapped, a later insert that reuses
\* h.idx returns a handle whose generation differs from h.generation.
C4_RemoveThenReuse ==
    [][/\ \A h \in Handles :
            (last'.op = "remove" /\ last'.ok /\ Remove(h))
               => /\ last'.rv = get(slots, h)
                  /\ get(slots', h) = None
                  /\ \A k \in Handles :
                        k.idx # h.idx => get(slots', k) = get(slots, k)
       /\ (/\ obs.tracked # NoHandle
           /\ obs.removed
           /\ ~obs.wrapped
           /\ last'.op = "insert"
           /\ last'.rh.idx = obs.tracked.idx)
              => last'.rh.generation # obs.tracked.generation]_vars

\* C5: replace(h, v) on a handle that resolves returns Ok(h2) with h2.idx = h.idx
\* and h2.generation = h.generation + 1 modulo the counter's range, which differs
\* from h.generation; afterwards h resolves to nothing and h2 to v.  It returns
\* Err exactly when h.idx is out of bounds, the stored generation differs from
\* h.generation, or the slot is empty.
C5_ReplaceContract ==
    [][\A h \in Handles, v \in Values :
         (last'.op = "replace" /\ Replace(h, v)) =>
            LET invalid == \/ ~InBounds(slots, h.idx)
                           \/ SlotAt(slots, h.idx).generation # h.generation
                           \/ SlotAt(slots, h.idx).val = None
            IN /\ ~last'.ok <=> invalid
               /\ get(slots, h) # None =>
                    /\ last'.ok
                    /\ last'.rh.idx = h.idx
                    /\ last'.rh.generation = (h.generation + 1) % (MaxGen + 1)
                    /\ last'.rh.generation # h.generation
                    /\ get(slots', h) = None
                    /\ get(slots', last'.rh) = v]_vars

\* A replace has succeeded on a handle of the largest generation: the handle it
\* returned has generation 0 and resolves.
C5_Witness ==
    /\ last.op = "replace"
    /\ last.ok
    /\ last.rh.generation = 0
    /\ get(slots, last.rh) # None

\* C6: a write through get_mut(h) changes only the payload of the slot at h.idx:
\* that slot's generation, every other slot, the free list and len() stay as
\* they were, and every handle that resolved before the write, h among them,
\* still resolves after it.
C6_GetMutFrame ==
    [][\A h \in Handles, v \in Values :
         (last'.op = "get_mut" /\ GetMut(h, v)) =>
            /\ free' = free
            /\ len(slots') = len(slots)
            /\ \A i \in Indices(slots) :
                  /\ SlotAt(slots', i).generation = SlotAt(slots, i).generation
                  /\ i # h.idx => SlotAt(slots', i) = SlotAt(slots, i)
            /\ \A k \in Handles : get(slots, k) # None => get(slots', k) # None
            /\ get_mut(slots, h) # None => get(slots', h) = v]_vars

\* A write through get_mut has changed the payload of the only slot.
C6_Witness ==
    /\ last.op = "get_mut"
    /\ last.ok
    /\ Len(slots) = 1
    /\ slots[1].val # None
    /\ slots[1].val # last.rv

\* C7: after clear() no handle resolves, so none returned before the call does,
\* and len() is what it was before the call.
C7_ClearInvalidatesAll ==
    [][(last'.op = "clear" /\ Clear) =>
         /\ \A h \in Handles : get(slots', h) = None
         /\ len(slots') = len(slots)]_vars

\* clear() has run on an arena of at least two slots and left them all on the
\* free list.
C7_Witness ==
    /\ last.op = "clear"
    /\ Len(slots) >= 2
    /\ Len(free) >= 2

\* C8: a map_invalidate(h, f) that succeeds advances the generation of the slot
\* at h.idx by exactly one, modulo the counter's range, and stores f's result,
\* also when f returns its input; h resolves to nothing afterwards and no other
\* slot changes.
C8_MapInvalidateBumps ==
    [][\A h \in Handles, f \in Closures :
         (last'.op = "map_invalidate" /\ last'.ok /\ MapInvalidate(h, f)) =>
            /\ SlotAt(slots', h.idx).generation
                 = (SlotAt(slots, h.idx).generation + 1) % (MaxGen + 1)
            /\ SlotAt(slots', h.idx).val = f[SlotAt(slots, h.idx).val]
            /\ get(slots', h) = None
            /\ len(slots') = len(slots)
            /\ \A i \in Indices(slots) :
                  i # h.idx => SlotAt(slots', i) = SlotAt(slots, i)]_vars

\* A map_invalidate has succeeded on the only slot and left it occupied, at a
\* generation that has wrapped to 0.
C8_Witness ==
    /\ last.op = "map_invalidate"
    /\ last.ok
    /\ Len(slots) = 1
    /\ slots[1].val # None
    /\ slots[1].generation = 0

\* C9: a replace, remove, swap or map_invalidate that returns its failure value
\* leaves every slot and the free list, and so len(), exactly as they were.
C9_FailureChangesNothing ==
    [][(last'.op \in {"replace", "remove", "swap", "map_invalidate"} /\ ~last'.ok)
          => (slots' = slots /\ free' = free)]_vars

\* A swap has failed on an arena with two slots and a non-empty free list.
C9_Witness ==
    /\ last.op = "swap"
    /\ ~last.ok
    /\ Len(slots) = 2
    /\ free # <<>>

\* C10: no call aborts, and every index held in the free list is below len().
C10_NoAbort ==
    /\ ~panicked
    /\ \A k \in 1..Len(free) : InBounds(slots, free[k])

\* An insert has reused a slot from the free list, at a generation other than 0,
\* and the free list still holds an index.
C10_Witness ==
    /\ last.op = "insert"
    /\ last.ok
    /\ last.rh.generation # 0
    /\ free # <<>>

\* C15: the generation stored at an index never decreases: every step leaves it
\* at least as large as it was, unless the counter wrapped from MaxGen to 0.
C15_GenerationMonotone ==
    [][\A i \in 1..Len(slots) :
         \/ slots'[i].generation >= slots[i].generation
         \/ (slots[i].generation = MaxGen /\ slots'[i].generation = 0)]_vars

C17_ClearIdempotent ==
    [][last'.op = "clear"
         => /\ len(slots') = len(slots)
            /\ \A i \in Indices(slots) :
                  IF SlotAt(slots, i).val # None
                  THEN SlotAt(slots', i)
                         = Slot(wrapping_add(SlotAt(slots, i).generation), None)
                  ELSE SlotAt(slots', i) = SlotAt(slots, i)
            /\ Len(free') = Len(free) + Cardinality(Occupied(slots))
            /\ SubSeq(free', 1, Len(free)) = free
            /\ {free'[k] : k \in (Len(free) + 1)..Len(free')} = Occupied(slots)
            /\ ClearLoop(slots', free', 0) = [slots |-> slots', free |-> free']
      ]_vars

\* A clear has just run on an arena whose slot 1 was already empty and in the
\* free list: slot 0 was pushed after it, or both were empty.
C17_Witness ==
    /\ last.op = "clear"
    /\ len(slots) = 2
    /\ free = <<1, 0>>
    /\ SlotAt(slots, 0).generation # SlotAt(slots, 1).generation

\* C20: while no generation counter has wrapped, the handle returned by an
\* insert or a replace differs from every handle an earlier insert or replace
\* returned.
C20_HandlesIssuedOnce ==
    [][(/\ obs.tracked # NoHandle
        /\ ~obs'.wrapped
        /\ last'.op \in {"insert", "replace"}
        /\ last'.ok)
         => last'.rh # obs.tracked]_vars

\* The free list and the empty slots agree: every index in the free list is the
\* index of an empty slot, and every empty slot's index is in the free list.
FreeListConsistent ==
    /\ \A k \in 1..Len(free) :
          InBounds(slots, free[k]) /\ SlotAt(slots, free[k]).val = None
    /\ \A i \in Indices(slots) :
          SlotAt(slots, i).val = None => \E k \in 1..Len(free) : free[k] = i

\* C14: in every state reached by calls made with handles that earlier calls
\* returned, the free list and the empty slots agree.
C14_FreeListConsistency == ~obs.forged => FreeListConsistent

\* C19: in a state reached by calls made with handles that earlier calls
\* returned, the index an insert pops is the index of an empty slot and is in
\* the free list once, and every handle that resolved before the insert
\* resolves to the same value after it.  (Stated for the runs in which no
\* generation counter has wrapped, which are enough to refute it.)
C19_InsertKeepsLive ==
    [][(~obs.forged /\ ~obs.wrapped /\ last'.op = "insert")
         => /\ free # <<>>
                 => /\ SlotAt(slots, Top(free)).val = None
                    /\ Cardinality({k \in 1..Len(free) : free[k] = Top(free)})
                          = 1
            /\ \A h \in Handles :
                  get(slots, h) # None => get(slots', h) = get(slots, h)]_vars

\* C13: get(h) on the GenVariant returns the current inner value exactly when
\* h.generation is the current generation and nothing otherwise; the handle
\* that handle() returns resolves in the state it was taken in; every set
\* stores the new value and advances the generation by one modulo MaxGen + 1;
\* and a handle taken before a set fails get after it, until MaxGen + 1 sets
\* have brought the counter back.
C13_SingleSlot ==
    [][/\ \A h \in GenHandles :
            (last'.op = "get" /\ GenVariantGet(h))
               => /\ last'.ok <=> h.generation = gv.generation
                  /\ last'.rv = IF h.generation = gv.generation
                                THEN gv.inner ELSE None
                  /\ gv' = gv
       /\ (last'.op = "handle")
            => /\ gv_get(gv', last'.rh) = gv'.inner
               /\ gv' = gv
       /\ \A new_inner \in Values :
            (last'.op = "set" /\ GenVariantSet(new_inner))
               => /\ gv'.inner = new_inner
                  /\ gv'.generation = (gv.generation + 1) % (MaxGen + 1)
                  /\ gv_get(gv', gv_handle(gv)) = None
       /\ (obs'.tracked # NoHandle /\ obs'.bumps \in 1..MaxGen)
            => gv_get(gv', obs'.tracked) = None]_vars

\* A get with a handle taken two sets ago has just failed.
C13_Witness ==
    /\ obs.tracked # NoHandle
    /\ obs.bumps = 2
    /\ last.op = "get"
    /\ ~last.ok
    /\ gv.generation = 0

\* C18: a bump adds one modulo MaxGen + 1, so the bump of a counter at MaxGen
\* yields 0 and aborts nothing; a handle returned for a slot resolves again once
\* the slot's counter has been bumped exactly MaxGen + 1 times and the slot is
\* occupied, and does not resolve while it has been bumped at least once and
\* fewer than MaxGen + 1 times.
C18_WrappingBumps ==
    [][obs.tracked # NoHandle
         => LET i == obs.tracked.idx IN
            /\ obs'.bumps > obs.bumps
                 => /\ SlotAt(slots', i).generation
                         = (SlotAt(slots, i).generation + 1) % (MaxGen + 1)
                    /\ ~panicked'
            /\ (obs'.bumps = MaxGen + 1 /\ SlotAt(slots', i).val # None)
                 => get(slots', obs.tracked) # None
            /\ obs'.bumps \in 1..MaxGen
                 => get(slots', obs.tracked) = None]_vars

\* C11: a dereference validates the view's handle in the state it is made in:
\* if the slot at the view's index has not changed since the view was built, it
\* returns that slot's value; if the generation stored there has changed since
\* (and no counter has wrapped), it aborts and returns nothing.
C11_DerefRevalidates ==
    [][last'.op = "deref"
         => /\ ~obs.touched
                 => /\ ~panicked'
                    /\ last'.ok
                    /\ last'.rv = SlotAt(slots, view.idx).val
            /\ (obs.stale /\ ~obs.wrapped)
                 => /\ panicked'
                    /\ ~last'.ok]_vars

\* C12: Elem::new(parent, h) builds a view of h exactly when get(h) returns a
\* value, builds none exactly when h is out of bounds, stale or points at an
\* empty slot, and leaves the arena as it was.
C12_ElemNew ==
    [][\A h \in Handles :
         (last'.op = "elem_new" /\ ElemNew(h))
            => /\ last'.ok <=> get(slots, h) # None
               /\ ~last'.ok <=> \/ ~InBounds(slots, h.idx)
                                \/ SlotAt(slots, h.idx).generation # h.generation
                                \/ SlotAt(slots, h.idx).val = None
               /\ last'.ok => view' = h
               /\ ~last'.ok => view' = view
               /\ slots' = slots
               /\ free' = free
               /\ ~panicked']_vars

\* Elem::new has just refused a handle, in an arena that holds a view, an
\* empty slot and an occupied slot whose generation has advanced.
C12_Witness ==
    /\ last.op = "elem_new"
    /\ ~last.ok
    /\ view # NoHandle
    /\ free # <<>>
    /\ \E i \in Indices(slots) :
          SlotAt(slots, i).val # None /\ SlotAt(slots, i).generation > 0
====
